---- MODULE Spec2Model ----
(***************************************************************************)
(* Model of src/models/dictionary.rs: the Dictionary store behind a        *)
(* tokio RwLock (DictionaryHandle), its refresh protocol (update,          *)
(* fetch_dict) and its queries (get_entry, search).                        *)
(*                                                                         *)
(* Conventions.  A string of the program is a sequence of one-character    *)
(* strings (<<"1", ".", "0">> is "1.0").  Option<T> is a sequence of       *)
(* length at most one: <<>> is None and <<x>> is Some(x).  A Result is a   *)
(* record [ok |-> TRUE, val |-> v] or [ok |-> FALSE, err |-> e].           *)
(***************************************************************************)
EXTENDS Integers, Sequences, FiniteSets, TLC

---------------------------------------------------------------------------
(* Option and Result *)

None == <<>>

Some(x) == <<x>>

Ok(v) == [ok |-> TRUE, val |-> v]

Err(e) == [ok |-> FALSE, err |-> e]

(* The error kinds of ApiError that this file produces. *)
MissingDictHeaders == [kind |-> "MissingDictHeaders"]

ParseIntError == [kind |-> "ParseIntError"]

CsvError == [kind |-> "CsvError"]

ReqwestError == [kind |-> "ReqwestError"]

EntryNotFound(id) == [kind |-> "EntryNotFound", id |-> id]

---------------------------------------------------------------------------
(* Integers: str::parse::<u32>() *)

(* u32::MAX, 4294967295, as its decimal digits. *)
U32MaxDigits == <<"4", "2", "9", "4", "9", "6", "7", "2", "9", "5">>

Digits == <<"0", "1", "2", "3", "4", "5", "6", "7", "8", "9">>

IsDigit(c) == \E i \in 1..10 : Digits[i] = c

DigitVal(c) == (CHOOSE i \in 1..10 : Digits[i] = c) - 1

RECURSIVE DecVal(_, _)
(* The value of the digit string s, accumulated left to right from acc. *)
DecVal(s, acc) ==
    IF s = <<>> THEN acc
    ELSE DecVal(Tail(s), acc * 10 + DigitVal(Head(s)))

RECURSIVE StripZeros(_)
StripZeros(s) ==
    IF s # <<>> /\ Head(s) = "0" THEN StripZeros(Tail(s)) ELSE s

RECURSIVE DigitsGreater(_, _)
(* For digit strings of equal length: a is the greater number. *)
DigitsGreater(a, b) ==
    IF a = <<>> THEN FALSE
    ELSE IF Head(a) # Head(b) THEN DigitVal(Head(a)) > DigitVal(Head(b))
         ELSE DigitsGreater(Tail(a), Tail(b))

(* The digit string s is a number greater than u32::MAX. *)
OverflowsU32(s) ==
    LET d == StripZeros(s)
    IN  \/ Len(d) > Len(U32MaxDigits)
        \/ Len(d) = Len(U32MaxDigits) /\ DigitsGreater(d, U32MaxDigits)

(* u32::from_str: an optional leading '+', then one or more decimal digits,
   the value at most u32::MAX; everything else is a ParseIntError. *)
ParseU32(s) ==
    LET body == IF s # <<>> /\ Head(s) = "+" THEN Tail(s) ELSE s
    IN  IF body = <<>> \/ \E i \in 1..Len(body) : ~IsDigit(body[i])
        THEN Err(ParseIntError)
        ELSE IF OverflowsU32(body)
             THEN Err(ParseIntError)
             ELSE Ok(DecVal(body, 0))

(* str::replace('.', "") *)
StripDots(s) == SelectSeq(s, LAMBDA c : c # ".")

---------------------------------------------------------------------------
(* The feed: csv records *)

(* The columns of RawEntry, in declaration order (0-based in the source,
   1-based here). *)
RawEntryFields ==
    << "id", "sem_id", "category", "topic", "sub_topic", "sub_sub_topic",
       "essential_flag", "basic_flag",
       "lat", "iro", "por", "spa", "cat", "occ", "fra", "srd", "ita", "rom",
       "eng", "fol", "frk", "sla" >>

(* LanguageCode::iter(): the language columns, in order. *)
Languages ==
    << "lat", "iro", "por", "spa", "cat", "occ", "fra", "srd", "ita", "rom",
       "eng", "fol", "frk", "sla" >>

(* The variants of Topic, as they are written in the feed. *)
KnownTopics == { <<"n", "a", "t">>, <<"s", "o", "c">> }

(* csv::Reader::records() with has_headers(false) and flexible(false): the
   i-th record is Ok(row) when the row has as many fields as the first
   record, and an UnequalLengths error otherwise. *)
Record(feed, i) ==
    IF Len(feed[i]) = Len(feed[1]) THEN Ok(feed[i]) ELSE Err(CsvError)

(* read_int(r, index): index is 0-based. *)
read_int(r, index) ==
    IF index >= Len(r) THEN Err(MissingDictHeaders)
    ELSE ParseU32(StripDots(r[index + 1]))

(* The column a counter is read from, in the order the counters are read. *)
CounterColumns ==
    << <<"total", 0>>, <<"sem", 1>>, <<"lat", 8>>, <<"iro", 9>>,
       <<"por", 10>>, <<"spa", 11>>, <<"cat", 12>>, <<"occ", 13>>,
       <<"fra", 14>>, <<"srd", 15>>, <<"ita", 16>>, <<"rom", 17>>,
       <<"eng", 18>>, <<"fol", 19>>, <<"frk", 20>>, <<"sla", 21>> >>

CounterNames == { CounterColumns[i][1] : i \in 1..Len(CounterColumns) }

CounterIndex(name) ==
    (CHOOSE i \in 1..Len(CounterColumns) : CounterColumns[i][1] = name)

(* Counters { total: read_int(&r, 0)?, ... }: the first failing read_int,
   in field order, is the error. *)
ReadCounters(r) ==
    LET cell(i) == read_int(r, CounterColumns[i][2])
        bad == { i \in 1..Len(CounterColumns) : ~cell(i).ok }
    IN  IF bad # {}
        THEN Err(cell(CHOOSE i \in bad : \A j \in bad : i <= j).err)
        ELSE Ok([ n \in CounterNames |-> cell(CounterIndex(n)).val ])

(* Counters::default() *)
DefaultCounters == [ n \in CounterNames |-> 0 ]

(* csv deserialization of Option<String>: an empty field is None. *)
OptString(cell) == IF cell = <<>> THEN None ELSE Some(cell)

(* csv deserialization of Option<u32>: an empty field is None, anything
   else must parse. *)
OptU32(cell) ==
    IF cell = <<>> THEN Ok(None)
    ELSE IF ParseU32(cell).ok THEN Ok(Some(ParseU32(cell).val))
         ELSE Err(CsvError)

(* A bug ok_or_default could have: whatever the cell holds is kept as the
   topic. *)
ok_or_default_keeps_any(cell) == IF cell = <<>> THEN None ELSE Some(cell)

(* ok_or_default on Option<Topic>: a cell that is no Topic gives the
   default, None. *)
ok_or_default(cell) == IF cell \in KnownTopics THEN Some(cell) ELSE None

FieldIndex(name) ==
    CHOOSE i \in 1..Len(RawEntryFields) : RawEntryFields[i] = name

(* r.deserialize::<RawEntry>(None): by position; a record with fewer fields
   than RawEntry, a non-numeric id or a non-numeric non-empty sem_id is an
   error. *)
DeserializeRawEntry(r) ==
    IF Len(r) < Len(RawEntryFields) THEN Err(CsvError)
    ELSE IF ~ParseU32(r[FieldIndex("id")]).ok THEN Err(CsvError)
    ELSE IF ~OptU32(r[FieldIndex("sem_id")]).ok THEN Err(CsvError)
    ELSE Ok([ f \in { RawEntryFields[i] : i \in 1..Len(RawEntryFields) } |->
                CASE f = "id" -> ParseU32(r[FieldIndex("id")]).val
                  [] f = "sem_id" -> OptU32(r[FieldIndex("sem_id")]).val
                  [] f = "topic" -> ok_or_default(r[FieldIndex("topic")])
                  [] OTHER -> OptString(r[FieldIndex(f)]) ])

EntryFields ==
    { "id", "sem_id", "topic", "essential_flag", "basic_flag" }
        \cup { Languages[i] : i \in 1..Len(Languages) }

(* A bug try_from could have: a flag is set by any marker (is_some()). *)
EntryTryFromAnyMarker(r) ==
    Ok([ f \in EntryFields |->
           CASE f = "essential_flag" -> r.essential_flag # None
             [] f = "basic_flag" -> r.basic_flag # None
             [] OTHER -> r[f] ])

(* Entry::try_from(RawEntry): never fails. *)
EntryTryFrom(r) ==
    Ok([ f \in EntryFields |->
           CASE f = "essential_flag" -> r.essential_flag = Some(<<"e">>)
             [] f = "basic_flag" -> r.basic_flag = Some(<<"b">>)
             [] OTHER -> r[f] ])

(* A bug fetch_dict could have: the first row with an id is kept
   (entries.entry(id).or_insert(r)). *)
InsertKeepsFirst(map, k, v) ==
    [ x \in DOMAIN map \cup {k} |-> IF x \in DOMAIN map THEN map[x] ELSE v ]

(* HashMap::insert(k, v): the new value replaces an old one. *)
Insert(map, k, v) ==
    [ x \in DOMAIN map \cup {k} |-> IF x = k THEN v ELSE map[x] ]

RECURSIVE ReadEntriesKeyedBySemId(_, _, _)
(* A bug fetch_dict could have: the entry is inserted under its sem_id
   (or 0 without one) instead of its id. *)
ReadEntriesKeyedBySemId(feed, i, acc) ==
    IF i > Len(feed) THEN acc
    ELSE IF ~Record(feed, i).ok
         THEN ReadEntriesKeyedBySemId(feed, i + 1, acc)
    ELSE LET raw == DeserializeRawEntry(feed[i])
         IN  IF ~raw.ok THEN ReadEntriesKeyedBySemId(feed, i + 1, acc)
             ELSE LET e == EntryTryFrom(raw.val)
                      k == IF e.val.sem_id = None THEN 0 ELSE e.val.sem_id[1]
                  IN  ReadEntriesKeyedBySemId(feed, i + 1,
                                              Insert(acc, k, e.val))

RECURSIVE ReadEntriesStopsAtBadRow(_, _, _)
(* A bug fetch_dict could have: the loop ends at the first row that is no
   record or does not deserialize. *)
ReadEntriesStopsAtBadRow(feed, i, acc) ==
    IF i > Len(feed) THEN acc
    ELSE IF ~Record(feed, i).ok THEN acc
    ELSE LET raw == DeserializeRawEntry(feed[i])
         IN  IF ~raw.ok THEN acc
             ELSE ReadEntriesStopsAtBadRow(feed, i + 1,
                      Insert(acc, EntryTryFrom(raw.val).val.id,
                             EntryTryFrom(raw.val).val))

RECURSIVE ReadEntries(_, _, _)
(* for r in records.flatten() { ... entries.insert(r.id, r) }: from the
   i-th record of the feed on, with acc the entries read so far. *)
ReadEntries(feed, i, acc) ==
    IF i > Len(feed) THEN acc
    ELSE IF ~Record(feed, i).ok THEN ReadEntries(feed, i + 1, acc)
    ELSE LET raw == DeserializeRawEntry(feed[i])
         IN  IF ~raw.ok THEN ReadEntries(feed, i + 1, acc)
             ELSE LET e == EntryTryFrom(raw.val)
                  IN  IF ~e.ok THEN ReadEntries(feed, i + 1, acc)
                      ELSE ReadEntries(feed, i + 1,
                                       Insert(acc, e.val.id, e.val))

EmptyMap == [ x \in {} |-> x ]

(* The response of the fetch collaborator: a transport error, or the text
   of the feed as its sequence of rows. *)
Transport(feed) == [ok |-> TRUE, val |-> feed]

TransportError == [ok |-> FALSE, err |-> ReqwestError]

(* fetch_dict, given what reqwest returned. *)
fetch_dict(response) ==
    IF ~response.ok THEN Err(ReqwestError)
    ELSE LET feed == response.val
         IN  IF Len(feed) < 2 THEN Err(MissingDictHeaders)
             ELSE IF ~Record(feed, 2).ok THEN Err(CsvError)
             ELSE LET r_counters == ReadCounters(feed[2])
                  IN  IF ~r_counters.ok THEN Err(r_counters.err)
                      ELSE Ok([ entries |-> ReadEntries(feed, 4, EmptyMap),
                                counters |-> r_counters.val ])

---------------------------------------------------------------------------
(* Bounds of the model *)

(* Number of tasks that share the handle. *)
NumTasks == 3

(* The wall clock read by Utc::now() runs from 0 to MaxClock. *)
MaxClock == 2

(* get_entry is called with the ids 0..MaxId. *)
MaxId == 3

(* The generated feeds have at most MaxRows entry rows that deserialize. *)
MaxRows == 2

---------------------------------------------------------------------------
(* Feeds the fetch collaborator may return *)

Cells(n, c) == [ i \in 1..n |-> c ]

TitleRow == Cells(Len(RawEntryFields), <<"t">>)

(* A counters row: the cell of "total", and one cell for every other
   column. *)
CountersRow(total, other) ==
    [ i \in 1..Len(RawEntryFields) |-> IF i = 1 THEN total ELSE other ]

(* An entry row with the given cells; the other columns are empty. *)
EntryRow(id, sem_id, topic, essential, basic, lat, eng) ==
    [ i \in 1..Len(RawEntryFields) |->
        CASE i = FieldIndex("id") -> id
          [] i = FieldIndex("sem_id") -> sem_id
          [] i = FieldIndex("topic") -> topic
          [] i = FieldIndex("essential_flag") -> essential
          [] i = FieldIndex("basic_flag") -> basic
          [] i = FieldIndex("lat") -> lat
          [] i = FieldIndex("eng") -> eng
          [] OTHER -> <<>> ]

(* Two entries; the topic of the second is no Topic. *)
FeedA ==
    << TitleRow,
       CountersRow(<<"1", ".", "0", "0", "0">>, <<"2">>),
       TitleRow,
       EntryRow(<<"1">>, <<"7">>, <<"n", "a", "t">>, <<"e">>, <<>>,
                <<"a", "b">>, <<>>),
       EntryRow(<<"2">>, <<>>, <<"z">>, <<>>, <<"b">>, <<>>, <<"b">>) >>

(* Rows with a non-numeric id and with too few columns, and two rows with
   the id 3. *)
FeedB ==
    << TitleRow,
       CountersRow(<<"3">>, <<"4">>),
       TitleRow,
       EntryRow(<<"2">>, <<"7">>, <<"s", "o", "c">>, <<"x">>, <<"b">>,
                <<"b">>, <<"a">>),
       EntryRow(<<"x">>, <<"7">>, <<>>, <<>>, <<>>, <<"a">>, <<>>),
       << <<"1">>, <<"7">> >>,
       EntryRow(<<"3">>, <<"9">>, <<>>, <<"e">>, <<"b">>, <<>>, <<>>),
       EntryRow(<<"3">>, <<"9">>, <<"n", "a", "t">>, <<>>, <<>>, <<"c">>,
                <<>>) >>

(* A counter cell that is no number. *)
FeedBadCounter ==
    << TitleRow, CountersRow(<<"1", "a">>, <<"2">>), TitleRow,
       EntryRow(<<"1">>, <<>>, <<>>, <<>>, <<>>, <<"a">>, <<>>) >>

(* No counters row. *)
FeedTitleOnly == << TitleRow >>

Feeds == { FeedA, FeedB, FeedBadCounter, FeedTitleOnly }

(* Three entries: two share a sem_id, one has none, one has no topic. *)
FeedC ==
    << TitleRow,
       CountersRow(<<"5">>, <<"0">>),
       TitleRow,
       EntryRow(<<"1">>, <<"9">>, <<"s", "o", "c">>, <<>>, <<>>, <<"b", "a">>,
                <<"c">>),
       EntryRow(<<"2">>, <<>>, <<"n", "a", "t">>, <<"e">>, <<"b">>, <<>>,
                <<"a">>),
       EntryRow(<<"3">>, <<"9">>, <<>>, <<>>, <<>>, <<"c">>, <<>>) >>

(* A counters row and no entry. *)
FeedNoEntries == << TitleRow, CountersRow(<<"0">>, <<"0">>) >>

QueryFeeds == Feeds \cup { FeedC, FeedNoEntries }

Responses == { TransportError } \cup { Transport(f) : f \in Feeds }

Sources == { "sheet" }

---------------------------------------------------------------------------
(* Feeds for the parser: every way a row or the counters row can be right
   or wrong *)

(* Rows that deserialize.  RowTwo has a topic that is no Topic and markers
   in the wrong columns; RowOneAgain has the id of RowOne and other
   cells. *)
RowOne ==
    EntryRow(<<"1">>, <<"7">>, <<"n", "a", "t">>, <<"e">>, <<>>, <<"a", "b">>,
             <<>>)

RowTwo == EntryRow(<<"2">>, <<>>, <<"z">>, <<"b">>, <<"e">>, <<>>, <<"b">>)

RowOneAgain ==
    EntryRow(<<"+", "1">>, <<"9">>, <<"s", "o", "c">>, <<"e", "e">>, <<"b">>,
             <<"c">>, <<>>)

GoodRows == { RowOne, RowTwo, RowOneAgain }

(* Rows that do not deserialize: an id or a sem_id that is no number, too
   few cells, one cell too many. *)
RowBadId == EntryRow(<<"x">>, <<"7">>, <<>>, <<"e">>, <<>>, <<"a">>, <<>>)

RowBadSemId == EntryRow(<<"3">>, <<"y">>, <<>>, <<>>, <<"b">>, <<"a">>, <<>>)

RowShort == << <<"3">>, <<"7">> >>

RowLong == Append(EntryRow(<<"3">>, <<>>, <<>>, <<>>, <<>>, <<"a">>, <<>>),
                  <<"a">>)

BadRows == { RowBadId, RowBadSemId, RowShort, RowLong }

(* The sequence seq with x put in as its k-th element. *)
InsertAt(seq, k, x) ==
    SubSeq(seq, 1, k - 1) \o << x >> \o SubSeq(seq, k, Len(seq))

(* The rows 4+ of the generated feeds: up to MaxRows good rows, alone or
   with one bad row at any place among them. *)
GoodBodies == UNION { [ 1..n -> GoodRows ] : n \in 0..MaxRows }

BodiesWithBadRow ==
    UNION { { InsertAt(b, k, m) : k \in 1..(Len(b) + 1), m \in BadRows } :
              b \in GoodBodies }

EntryFeeds ==
    { << TitleRow, CountersRow(<<"3">>, <<"4">>), TitleRow >> \o b :
        b \in GoodBodies \cup BodiesWithBadRow }

(* A counters row with the given cell in column col (0-based). *)
CountersRowAt(col, cell) ==
    [ i \in 1..Len(RawEntryFields) |-> IF i = col + 1 THEN cell ELSE <<"2">> ]

(* Counter cells that are numbers once the dots are removed, and cells that
   are not (the last one is u32::MAX + 1). *)
GoodCounterCells ==
    { <<"1", "0", "0", ".", "0", "0", "0">>, <<"1", ".", "5">>, <<"+", "7">>,
      <<".", "0", "8", ".">> }

BadCounterCells ==
    { <<"1", "a">>, <<>>, <<".">>, <<"-", "1">>, <<"1", " ">>,
      <<"4", "2", "9", "4", "9", "6", "7", "2", "9", "6">> }

CounterFeeds ==
    { << TitleRow, CountersRowAt(col, cell), TitleRow, RowOne >> :
        col \in { 0, 2, 8, 21 }, cell \in GoodCounterCells \cup BadCounterCells }

(* No row at all. *)
FeedEmpty == << >>

(* Every row has two cells only: the counters row has no column 8. *)
FeedNarrow ==
    << Cells(2, <<"t">>), << <<"1">>, <<"2">> >>, Cells(2, <<"t">>),
       << <<"1">>, <<"7">> >> >>

(* Two cells in every row, and the first counter is no number. *)
FeedNarrowBadCounter ==
    << Cells(2, <<"t">>), << <<"1", "a">>, <<"2">> >>, Cells(2, <<"t">>) >>

(* The counters row is shorter than the title row. *)
FeedShortCounters ==
    << TitleRow, << <<"1">>, <<"2">> >>, TitleRow, RowOne >>

(* The counters row has one cell more than the title row, and its first
   counter is no number. *)
FeedLongBadCounters ==
    << TitleRow, Append(CountersRowAt(0, <<"1", "a">>), <<"2">>), TitleRow,
       RowOne >>

(* Every row has one column more than RawEntry, but for one row that has
   exactly the columns of RawEntry. *)
FeedWide ==
    << Append(TitleRow, <<"t">>),
       Append(CountersRow(<<"3">>, <<"4">>), <<"5">>),
       Append(TitleRow, <<"t">>),
       Append(RowOne, <<"x">>),
       RowTwo >>

LayoutFeeds ==
    { FeedEmpty, FeedNarrow, FeedNarrowBadCounter, FeedShortCounters,
      FeedLongBadCounters, FeedWide }

ParseFeeds == EntryFeeds \cup CounterFeeds \cup LayoutFeeds \cup QueryFeeds

ParseResponses == { TransportError } \cup { Transport(f) : f \in ParseFeeds }

---------------------------------------------------------------------------
(* The store and the tasks that use it *)

VARIABLES
    url,          \* Dictionary.url
    entries,      \* Dictionary.entries
    counters,     \* Dictionary.counters
    last_update,  \* Dictionary.last_update
    handle,       \* what from_url returned: None until it returns
    clock,        \* the time Utc::now() returns
    pc,           \* where main and every task is
    upd,          \* per process, the result of fetch_dict inside update
    waitq,        \* the tasks waiting for the RwLock, first come first
    ret,          \* the last value get_entry or search returned, and to whom
    last_good,    \* history: what the last successful fetch_dict returned
    fetched       \* per process, the response reqwest gave to its update

vars ==
    << url, entries, counters, last_update, handle, clock, pc, upd, waitq,
       ret, last_good, fetched >>

store == << entries, counters, last_update >>

Main == 0

Tasks == 1..NumTasks

Procs == {Main} \cup Tasks

(* A task holds the write guard from the grant of write() until the guard
   is dropped after update returned. *)
WriteHeld == { "fetching", "set_entries", "set_counters", "set_last_update",
               "update_ok", "update_err" }

ReadHeld == { "read", "read_ret" }

Writers(p) == { t \in Tasks : p[t] \in WriteHeld }

Readers(p) == { t \in Tasks : p[t] \in ReadHeld }

RECURSIVE WakeReadersAlways(_, _)
(* A lock that is no reader-writer lock: a reader is granted whoever holds
   the lock. *)
WakeReadersAlways(p, q) ==
    IF q = <<>> THEN << p, q >>
    ELSE LET t == Head(q)
         IN  IF p[t] = "wait_read"
             THEN WakeReadersAlways([p EXCEPT ![t] = "read"], Tail(q))
             ELSE IF p[t] = "wait_write" /\ Writers(p) = {}
                     /\ Readers(p) = {}
                  THEN WakeReadersAlways([p EXCEPT ![t] = "fetching"],
                                         Tail(q))
                  ELSE << p, q >>

RECURSIVE WakeWritersAlways(_, _)
(* A lock that does not keep writers apart: a writer is granted whenever no
   reader holds the lock. *)
WakeWritersAlways(p, q) ==
    IF q = <<>> THEN << p, q >>
    ELSE LET t == Head(q)
         IN  IF p[t] = "wait_read" /\ Writers(p) = {}
             THEN WakeWritersAlways([p EXCEPT ![t] = "read"], Tail(q))
             ELSE IF p[t] = "wait_write" /\ Readers(p) = {}
                  THEN WakeWritersAlways([p EXCEPT ![t] = "fetching"],
                                         Tail(q))
                  ELSE << p, q >>

RECURSIVE Wake(_, _)
(* The RwLock hands the lock to its waiters in arrival order: the first
   waiter is granted as soon as what it asks for is free, and the waiters
   behind it only after it.  The result is the pc and the queue after all
   grants that are possible. *)
Wake(p, q) ==
    IF q = <<>> THEN << p, q >>
    ELSE LET t == Head(q)
         IN  IF p[t] = "wait_read" /\ Writers(p) = {}
             THEN Wake([p EXCEPT ![t] = "read"], Tail(q))
             ELSE IF p[t] = "wait_write" /\ Writers(p) = {}
                     /\ Readers(p) = {}
                  THEN Wake([p EXCEPT ![t] = "fetching"], Tail(q))
                  ELSE << p, q >>

Ready == handle = Some(Ok("handle"))

Init ==
    /\ url = None
    /\ entries = EmptyMap
    /\ counters = DefaultCounters
    /\ last_update = 0
    /\ handle = None
    /\ clock = 0
    /\ pc = [ p \in Procs |-> IF p = Main THEN "start" ELSE "idle" ]
    /\ upd = [ p \in Procs |-> None ]
    /\ waitq = <<>>
    /\ ret = None
    /\ last_good = None
    /\ fetched = [ p \in Procs |-> None ]

(* Time passes. *)
Tick ==
    /\ clock < MaxClock
    /\ clock' = clock + 1
    /\ UNCHANGED << url, entries, counters, last_update, handle, pc, upd,
                    waitq, ret, last_good, fetched >>

(* from_url, lines 25-31: the dictionary is created empty and its first
   update is started. *)
FromUrl(u) ==
    /\ pc[Main] = "start"
    /\ url' = Some(u)
    /\ entries' = EmptyMap
    /\ counters' = DefaultCounters
    /\ last_update' = clock
    /\ pc' = [pc EXCEPT ![Main] = "fetching"]
    /\ UNCHANGED << handle, clock, upd, waitq, ret, last_good, fetched >>

(* A bug update could have: the old mapping is dropped before the result of
   fetch_dict is looked at. *)
UpdateFetchedClearsFirst(p, response) ==
    /\ pc[p] = "fetching"
    /\ upd' = [upd EXCEPT ![p] = Some(fetch_dict(response))]
    /\ pc' = [pc EXCEPT ![p] = IF fetch_dict(response).ok
                               THEN "set_entries" ELSE "update_err"]
    /\ entries' = EmptyMap
    /\ last_good' = IF fetch_dict(response).ok
                    THEN Some(fetch_dict(response).val) ELSE last_good
    /\ fetched' = [fetched EXCEPT ![p] = Some(response)]
    /\ UNCHANGED << url, counters, last_update, handle, clock, waitq, ret >>

(* update, line 36: fetch_dict returns; on an error update returns it. *)
UpdateFetched(p, response) ==
    /\ pc[p] = "fetching"
    /\ upd' = [upd EXCEPT ![p] = Some(fetch_dict(response))]
    /\ pc' = [pc EXCEPT ![p] = IF fetch_dict(response).ok
                               THEN "set_entries" ELSE "update_err"]
    /\ last_good' = IF fetch_dict(response).ok
                    THEN Some(fetch_dict(response).val) ELSE last_good
    /\ fetched' = [fetched EXCEPT ![p] = Some(response)]
    /\ UNCHANGED << url, entries, counters, last_update, handle, clock,
                    waitq, ret >>

(* A bug update could have: the new entries are merged into the old
   mapping (HashMap::extend) instead of replacing it. *)
UpdateSetEntriesMerging(p) ==
    /\ pc[p] = "set_entries"
    /\ entries' = [ k \in DOMAIN entries \cup DOMAIN upd[p][1].val.entries |->
                      IF k \in DOMAIN upd[p][1].val.entries
                      THEN upd[p][1].val.entries[k] ELSE entries[k] ]
    /\ pc' = [pc EXCEPT ![p] = "set_counters"]
    /\ UNCHANGED << url, counters, last_update, handle, clock, upd, waitq,
                    ret, last_good, fetched >>

(* update, line 37 *)
UpdateSetEntries(p) ==
    /\ pc[p] = "set_entries"
    /\ entries' = upd[p][1].val.entries
    /\ pc' = [pc EXCEPT ![p] = "set_counters"]
    /\ UNCHANGED << url, counters, last_update, handle, clock, upd, waitq,
                    ret, last_good, fetched >>

(* update, line 38 *)
UpdateSetCounters(p) ==
    /\ pc[p] = "set_counters"
    /\ counters' = upd[p][1].val.counters
    /\ pc' = [pc EXCEPT ![p] = "set_last_update"]
    /\ UNCHANGED << url, entries, last_update, handle, clock, upd, waitq,
                    ret, last_good, fetched >>

(* update, lines 39-40 *)
UpdateSetLastUpdate(p) ==
    /\ pc[p] = "set_last_update"
    /\ last_update' = clock
    /\ pc' = [pc EXCEPT ![p] = "update_ok"]
    /\ UNCHANGED << url, entries, counters, handle, clock, upd, waitq, ret,
                    last_good, fetched >>

(* A bug from_url could have: the result of the first update is dropped
   (let _ = dict.update().await) and the handle is returned anyway. *)
FromUrlReturnAlways ==
    /\ pc[Main] \in { "update_ok", "update_err" }
    /\ handle' = Some(Ok("handle"))
    /\ pc' = [pc EXCEPT ![Main] = "done"]
    /\ upd' = [upd EXCEPT ![Main] = None]
    /\ fetched' = [fetched EXCEPT ![Main] = None]
    /\ UNCHANGED << url, entries, counters, last_update, clock, waitq, ret,
                    last_good >>

(* from_url, lines 31-32: the error of update is returned, or the
   dictionary is wrapped in its lock and returned. *)
FromUrlReturn ==
    /\ pc[Main] \in { "update_ok", "update_err" }
    /\ handle' = IF pc[Main] = "update_ok" THEN Some(Ok("handle"))
                 ELSE Some(Err(upd[Main][1].err))
    /\ pc' = [pc EXCEPT ![Main] = "done"]
    /\ upd' = [upd EXCEPT ![Main] = None]
    /\ fetched' = [fetched EXCEPT ![Main] = None]
    /\ UNCHANGED << url, entries, counters, last_update, clock, waitq, ret,
                    last_good >>

(* A task asks for the lock: handle.read().await or handle.write().await. *)
Acquire(t, want) ==
    /\ Ready
    /\ pc[t] \in { "idle", "abandoned" }
    /\ LET w == Wake([pc EXCEPT ![t] = want], Append(waitq, t))
       IN  /\ pc' = w[1]
           /\ waitq' = w[2]
    /\ UNCHANGED << url, entries, counters, last_update, handle, clock, upd,
                    ret, last_good, fetched >>

Read(t) == Acquire(t, "wait_read")

Write(t) == Acquire(t, "wait_write")

(* A bug the lock could have: a dropped guard wakes no waiter. *)
ReleaseWithoutWake(t) ==
    /\ pc' = [pc EXCEPT ![t] = "idle"]
    /\ waitq' = waitq

(* A guard is dropped: the lock goes to the waiters. *)
Release(t) ==
    LET w == Wake([pc EXCEPT ![t] = "idle"], waitq)
    IN  /\ pc' = w[1]
        /\ waitq' = w[2]

(* A bug refresh could have: a failed update makes the caller reset the
   dictionary. *)
RefreshReturnResets(t) ==
    /\ t \in Tasks
    /\ pc[t] \in { "update_ok", "update_err" }
    /\ Release(t)
    /\ upd' = [upd EXCEPT ![t] = None]
    /\ entries' = IF pc[t] = "update_err" THEN EmptyMap ELSE entries
    /\ fetched' = [fetched EXCEPT ![t] = None]
    /\ UNCHANGED << url, counters, last_update, handle, clock, ret,
                    last_good >>

(* refresh: update has returned to the task holding the write guard, which
   drops the guard. *)
RefreshReturn(t) ==
    /\ t \in Tasks
    /\ pc[t] \in { "update_ok", "update_err" }
    /\ Release(t)
    /\ upd' = [upd EXCEPT ![t] = None]
    /\ fetched' = [fetched EXCEPT ![t] = None]
    /\ UNCHANGED << url, entries, counters, last_update, handle, clock, ret,
                    last_good >>

(* A bug update could have: it suspends between its assignments too, so
   that its caller can abandon it there. *)
AbandonAnywhere(t) ==
    /\ t \in Tasks
    /\ pc[t] \in { "fetching", "set_entries", "set_counters",
                   "set_last_update" }
    /\ LET w == Wake([pc EXCEPT ![t] = "abandoned"], waitq)
       IN  /\ pc' = w[1]
           /\ waitq' = w[2]
    /\ upd' = [upd EXCEPT ![t] = None]
    /\ fetched' = [fetched EXCEPT ![t] = None]
    /\ UNCHANGED << url, entries, counters, last_update, handle, clock, ret,
                    last_good >>

(* The caller drops the future of refresh while update is suspended at the
   await of line 36, the only one of update: fetch_dict is dropped with
   its request, and so is the write guard, which goes to the waiters.  The
   task is then free for its next call. *)
Abandon(t) ==
    /\ t \in Tasks
    /\ pc[t] = "fetching"
    /\ LET w == Wake([pc EXCEPT ![t] = "abandoned"], waitq)
       IN  /\ pc' = w[1]
           /\ waitq' = w[2]
    /\ upd' = [upd EXCEPT ![t] = None]
    /\ fetched' = [fetched EXCEPT ![t] = None]
    /\ UNCHANGED << url, entries, counters, last_update, handle, clock, ret,
                    last_good >>

(* get_entry(id) *)
get_entry(id) ==
    IF id \in DOMAIN entries THEN Ok(entries[id]) ELSE Err(EntryNotFound(id))

GetEntry(t, id) ==
    /\ pc[t] = "read"
    /\ ret' = Some([task |-> t, op |-> "get_entry", id |-> id,
                     val |-> get_entry(id)])
    /\ pc' = [pc EXCEPT ![t] = "read_ret"]
    /\ UNCHANGED << url, entries, counters, last_update, handle, clock, upd,
                    waitq, last_good, fetched >>

(* Entry::matches(text, langs): the text occurs in one of the named
   language fields of the entry. *)
Contains(s, t) ==
    \E i \in 0..(Len(s) - Len(t)) : SubSeq(s, i + 1, i + Len(t)) = t

matches(e, t, langs) ==
    \E i \in 1..Len(langs) :
        e[langs[i]] # None /\ Contains(e[langs[i]][1], t)

(* A bug search could have: an empty text_langs is used as it is, so that
   no language field is looked at. *)
SearchLangsNoDefault(text_langs) == text_langs

(* search, lines 57-61 *)
SearchLangs(text_langs) == IF text_langs = <<>> THEN Languages ELSE text_langs

(* A bug search could have: an entry without sem_id passes a given
   sem_id. *)
sem_filter_passes_none(e, sem_id) ==
    CASE sem_id # None /\ e.sem_id # None -> sem_id[1] = e.sem_id[1]
      [] OTHER -> TRUE

(* search, lines 64-68 *)
sem_filter(e, sem_id) ==
    CASE sem_id # None /\ e.sem_id # None -> sem_id[1] = e.sem_id[1]
      [] sem_id # None /\ e.sem_id = None -> FALSE
      [] OTHER -> TRUE

(* A bug search could have: the topic is looked up in topics without the
   test for empty topics. *)
topic_filter_unguarded(e, topics) ==
    e.topic # None /\ \E i \in 1..Len(topics) : topics[i] = e.topic[1]

(* A bug search could have: an entry without topic passes a non-empty
   topics (map_or(true, ...)). *)
topic_filter_passes_absent(e, topics) ==
    IF topics = <<>> THEN TRUE
    ELSE e.topic = None \/ \E i \in 1..Len(topics) : topics[i] = e.topic[1]

(* search, lines 70-74 *)
topic_filter(e, topics) ==
    IF topics = <<>> THEN TRUE
    ELSE e.topic # None /\ \E i \in 1..Len(topics) : topics[i] = e.topic[1]

(* search, lines 76-79 *)
text_filter(e, text, langs) ==
    IF text # None THEN matches(e, text[1], langs) ELSE TRUE

(* search, lines 63-82 *)
filter(e, text, langs, sem_id, topics) ==
    sem_filter(e, sem_id) /\ topic_filter(e, topics)
        /\ text_filter(e, text, langs)

(* The orders in which HashMap::values() may visit a map with the keys
   S. *)
Orders(S) ==
    { o \in [ 1..Cardinality(S) -> S ] :
        \A i, j \in 1..Cardinality(S) : i # j => o[i] # o[j] }

(* search, lines 84-89, with values() visiting the keys in the given
   order. *)
search(text, text_langs, sem_id, topics, order) ==
    LET langs == SearchLangs(text_langs)
        values == [ i \in 1..Len(order) |-> entries[order[i]] ]
    IN  Ok(SelectSeq(values,
                     LAMBDA e : filter(e, text, langs, sem_id, topics)))

(* A call of search with the arguments q. *)
Search(t, q, order) ==
    /\ pc[t] = "read"
    /\ ret' = Some([task |-> t, op |-> "search", q |-> q,
                     val |-> search(q.text, q.text_langs, q.sem_id,
                                    q.topics, order)])
    /\ pc' = [pc EXCEPT ![t] = "read_ret"]
    /\ UNCHANGED << url, entries, counters, last_update, handle, clock, upd,
                    waitq, last_good, fetched >>

(* The arguments search is called with. *)
QueryTexts == { None, Some(<<"a">>), Some(<<"b">>) }

QueryLangs == { <<>>, <<"lat">>, <<"eng">>, Languages }

QuerySemIds == { None, Some(7), Some(9), Some(5) }

QueryTopics ==
    { <<>>, << <<"n", "a", "t">> >>, << <<"s", "o", "c">> >>,
      << <<"n", "a", "t">>, <<"s", "o", "c">> >> }

Queries ==
    [ text : QueryTexts, text_langs : QueryLangs, sem_id : QuerySemIds,
      topics : QueryTopics ]

(* The searches of the tasks that run concurrently with refreshes. *)
TaskQueries ==
    { q \in Queries : /\ q.text = None
                      /\ q.text_langs = <<>>
                      /\ q.topics = <<>>
                      /\ q.sem_id \in { None, Some(7) } }

(* The caller has its copy and drops the read guard. *)
ReadReturn(t) ==
    /\ pc[t] = "read_ret"
    /\ Release(t)
    /\ ret' = IF ret # None /\ ret[1].task = t THEN None ELSE ret
    /\ UNCHANGED << url, entries, counters, last_update, handle, clock, upd,
                    last_good, fetched >>

(* The steps of from_url and of the calls of the tasks that their callers
   await to the end. *)
Calls ==
    \/ \E u \in Sources : FromUrl(u)
    \/ \E p \in Procs, r \in Responses : UpdateFetched(p, r)
    \/ \E p \in Procs : UpdateSetEntries(p)
    \/ \E p \in Procs : UpdateSetCounters(p)
    \/ \E p \in Procs : UpdateSetLastUpdate(p)
    \/ FromUrlReturn
    \/ \E t \in Tasks : Read(t)
    \/ \E t \in Tasks : Write(t)
    \/ \E t \in Tasks : RefreshReturn(t)
    \/ \E t \in Tasks, id \in 0..MaxId : GetEntry(t, id)
    \/ \E t \in Tasks, q \in TaskQueries, order \in Orders(DOMAIN entries) :
          Search(t, q, order)
    \/ \E t \in Tasks : ReadReturn(t)

Next == Tick \/ Calls \/ \E t \in Tasks : Abandon(t)

Spec == Init /\ [][Next]_vars

---------------------------------------------------------------------------
(* The queries alone: one task reads a store that from_url has filled from
   any feed that parses, with every argument of Queries. *)

QueryInit ==
    /\ \E f \in QueryFeeds, u \in Sources :
          /\ fetch_dict(Transport(f)).ok
          /\ url = Some(u)
          /\ entries = fetch_dict(Transport(f)).val.entries
          /\ counters = fetch_dict(Transport(f)).val.counters
    /\ last_update = 0
    /\ handle = Some(Ok("handle"))
    /\ clock = 0
    /\ pc = [ p \in Procs |-> IF p = Main THEN "done" ELSE "idle" ]
    /\ upd = [ p \in Procs |-> None ]
    /\ waitq = <<>>
    /\ ret = None
    /\ last_good = Some([entries |-> entries, counters |-> counters])
    /\ fetched = [ p \in Procs |-> None ]

QueryNext ==
    \/ Read(1)
    \/ \E id \in 0..MaxId : GetEntry(1, id)
    \/ \E q \in Queries, order \in Orders(DOMAIN entries) : Search(1, q, order)
    \/ ReadReturn(1)

QuerySpec == QueryInit /\ [][QueryNext]_vars

---------------------------------------------------------------------------
(* The parser: from_url, and one task that refreshes and searches, with
   every feed of ParseFeeds as what reqwest may return. *)

ParseQueries ==
    { q \in Queries : /\ q.text = None
                      /\ q.text_langs = <<>>
                      /\ q.sem_id = None }

ParseNext ==
    \/ \E u \in Sources : FromUrl(u)
    \/ \E p \in { Main, 1 }, r \in ParseResponses : UpdateFetched(p, r)
    \/ \E p \in { Main, 1 } : UpdateSetEntries(p)
    \/ \E p \in { Main, 1 } : UpdateSetCounters(p)
    \/ \E p \in { Main, 1 } : UpdateSetLastUpdate(p)
    \/ FromUrlReturn
    \/ Write(1)
    \/ RefreshReturn(1)
    \/ Read(1)
    \/ \E q \in ParseQueries, order \in Orders(DOMAIN entries) :
          Search(1, q, order)
    \/ ReadReturn(1)

ParseSpec == Init /\ [][ParseNext]_vars

---------------------------------------------------------------------------
(* Scheduling: a call that has started is run on: the fetch returns, the
   statements of update, get_entry and search are executed and the guards
   are dropped.  Nothing makes a task start a call.  The clock decides no
   step of a call, so progress is checked with the clock standing still. *)

Continue(p) ==
    \/ \E r \in Responses : UpdateFetched(p, r)
    \/ UpdateSetEntries(p)
    \/ UpdateSetCounters(p)
    \/ UpdateSetLastUpdate(p)
    \/ p = Main /\ FromUrlReturn
    \/ p \in Tasks /\ RefreshReturn(p)
    \/ p \in Tasks /\ \E id \in 0..MaxId : GetEntry(p, id)
    \/ p \in Tasks /\ pc[p] = "read"
          /\ \E q \in TaskQueries, order \in Orders(DOMAIN entries) :
                Search(p, q, order)
    \/ p \in Tasks /\ ReadReturn(p)

FairSpec == Init /\ [][Calls]_vars /\ \A p \in Procs : WF_vars(Continue(p))

---------------------------------------------------------------------------
(* Properties of the refresh protocol *)

(* The last value returned is one that get_entry or search (op) returned
   to task t, which still holds its read guard. *)
Returned(t, op) ==
    pc[t] = "read_ret" /\ ret # None /\ ret[1].task = t /\ ret[1].op = op

(* The elements of a sequence. *)
Range(seq) == { seq[i] : i \in 1..Len(seq) }

(* A process is between the first and the last assignment of update. *)
Swapping(p) == pc[p] \in { "set_counters", "set_last_update" }

(* What fetch_dict returns for each feed. *)
Parsed == [ f \in QueryFeeds |-> fetch_dict(Transport(f)) ]

(* The datasets fetch_dict parses from the feeds. *)
Datasets == { Parsed[f].val : f \in { g \in Feeds : Parsed[g].ok } }

(* The entries and the counters are those of one feed. *)
WholeDataset == [entries |-> entries, counters |-> counters] \in Datasets

(* C1: a refresh whose fetch or parse fails leaves the entries, the
   counters and last_update as they were, from the moment fetch_dict fails
   until the guard is dropped, and update returns the error of fetch_dict to
   the caller. *)
C1_FailedRefreshChangesNothing ==
    [][ \A t \in Tasks :
          /\ (pc[t] \in { "fetching", "update_err" }
                /\ pc'[t] \in { "update_err", "idle" }) => store' = store
          /\ pc'[t] = "update_err" =>
                /\ upd'[t] # None /\ ~upd'[t][1].ok
                /\ upd'[t][1].err \in
                     { ReqwestError, MissingDictHeaders, ParseIntError,
                       CsvError } ]_vars

(* A refresh of a filled store has failed in parsing the counters. *)
C1_Witness ==
    \E t \in Tasks :
        /\ pc[t] = "update_err"
        /\ upd[t] = Some(Err(ParseIntError))
        /\ entries # EmptyMap

(* C2: a task that holds a read guard sees a whole dataset: no update is
   between its assignments, the entries and counters come from one feed,
   and what get_entry or search returned to it is still what the store
   holds. *)
C2_ReadersSeeWholeDataset ==
    \A r \in Tasks :
        pc[r] \in ReadHeld =>
            /\ \A p \in Procs : ~Swapping(p)
            /\ WholeDataset
            /\ Returned(r, "get_entry") => ret[1].val = get_entry(ret[1].id)
            /\ Returned(r, "search") =>
                  \A i \in 1..Len(ret[1].val.val) :
                      \E k \in DOMAIN entries :
                          entries[k] = ret[1].val.val[i]

(* A read was asked for while a refresh is between its assignments, and
   waits. *)
C2_Witness ==
    \E r, w \in Tasks :
        /\ pc[r] = "wait_read"
        /\ pc[w] = "set_counters"
        /\ entries # last_good[1].entries \/ counters # last_good[1].counters

(* C3: while a refresh waits for its fetch, a read that another task asks for
   is granted: no task waits for the read guard. *)
C3_ReadersProceedDuringFetch ==
    \A w, r \in Tasks : pc[w] = "fetching" => pc[r] # "wait_read"

(* C4: from the assignment of the entries on, the mapping of the store is
   the one the fetch of this update parsed, with no key of the old mapping
   left over; so are the counters from their assignment on; and last_update
   is the time at which this update ended. *)
C4_SuccessfulRefreshReplaces ==
    [][ \A p \in Procs :
          /\ pc'[p] \in { "set_counters", "set_last_update", "update_ok" } =>
                /\ upd'[p][1].ok
                /\ \E f \in Feeds : upd'[p][1] = fetch_dict(Transport(f))
                /\ entries' = upd'[p][1].val.entries
          /\ pc'[p] \in { "set_last_update", "update_ok" } =>
                counters' = upd'[p][1].val.counters
          /\ (pc[p] = "set_last_update" /\ pc'[p] = "update_ok") =>
                last_update' = clock ]_vars

(* A refresh with feed B of a store that held feed A (whose counters are
   still there) has replaced the entries: id 1 of feed A is gone. *)
C4_Witness ==
    \E t \in Tasks :
        /\ pc[t] = "set_counters"
        /\ counters = fetch_dict(Transport(FeedA)).val.counters
        /\ entries = fetch_dict(Transport(FeedB)).val.entries
        /\ 1 \in DOMAIN fetch_dict(Transport(FeedA)).val.entries
        /\ 1 \notin DOMAIN entries

(* C5: once from_url has returned the handle the store stays Ready, and
   whenever no update is between its assignments the store holds the
   entries and counters of the last fetch_dict that succeeded, however many
   refreshes failed since. *)
C5_LastGoodDatasetIsServed ==
    /\ [](Ready /\ (\A p \in Procs : pc[p] \notin
                       { "set_entries", "set_counters", "set_last_update" })
            => /\ last_good # None
               /\ entries = last_good[1].entries
               /\ counters = last_good[1].counters
               /\ last_update <= clock)
    /\ [][Ready => Ready']_vars

(* A refresh has failed at a time later than the last successful update,
   a reader waits for the guard, and the store holds the last good
   dataset. *)
C5_Witness ==
    \E t, r \in Tasks :
        /\ pc[t] = "update_err"
        /\ pc[r] = "wait_read"
        /\ last_update < clock
        /\ entries = last_good[1].entries
        /\ entries # EmptyMap

(* C6: from_url returns the handle only when its update succeeded, and the
   store then holds what fetch_dict parsed; it returns the error of
   fetch_dict otherwise; and no task asks for, waits for or holds a guard
   unless the handle was returned. *)
C6_ConstructAllOrNothing ==
    /\ [](\A t \in Tasks :
            (pc[t] # "idle" \/ ret # None \/ waitq # <<>>) => Ready)
    /\ [](Ready => last_good # None)
    /\ [][ (pc[Main] # "done" /\ pc'[Main] = "done") =>
             IF upd[Main][1].ok
             THEN /\ handle' = Some(Ok("handle"))
                  /\ entries' = upd[Main][1].val.entries
                  /\ counters' = upd[Main][1].val.counters
             ELSE /\ handle' = Some(Err(upd[Main][1].err))
                  /\ \A t \in Tasks : ~ENABLED Read(t) /\ ~ENABLED Write(t)
         ]_vars

(* from_url has failed on a feed without its counters row. *)
C6_Witness ==
    /\ handle = Some(Err(MissingDictHeaders))
    /\ entries = EmptyMap
    /\ counters = DefaultCounters

(* C7: a refresh whose fetch is in flight completes, with success or with
   failure; after either the write guard is dropped; and every task that
   waits for a guard gets it. *)
C7_RefreshCompletesAndReleases ==
    \A t \in Tasks :
        /\ pc[t] = "fetching" ~> pc[t] \in { "update_ok", "update_err" }
        /\ pc[t] \in { "update_ok", "update_err" } ~> pc[t] = "idle"
        /\ pc[t] \in { "wait_read", "wait_write" }
              ~> pc[t] \in { "read", "fetching" }

(* A refresh has failed and holds the write guard, while a reader and
   another refresh wait for the lock. *)
C7_Witness ==
    \E w, r, x \in Tasks :
        /\ pc[w] = "update_err"
        /\ pc[r] = "wait_read"
        /\ pc[x] = "wait_write"
        /\ waitq = << r, x >>

---------------------------------------------------------------------------
(* Properties of the queries *)

(* C8: every entry is stored under its own id; get_entry(id) returns a copy
   of the stored entry, whose id is the one asked for, when the mapping has
   the id, and EntryNotFound(id) otherwise; and it leaves the store as it
   is. *)
C8_GetEntry ==
    /\ [](\A k \in DOMAIN entries : entries[k].id = k)
    /\ [](\A t \in Tasks :
            Returned(t, "get_entry") =>
                LET id == ret[1].id
                    v == ret[1].val
                IN  /\ id \in DOMAIN entries =>
                          v.ok /\ v.val.id = id /\ v.val = entries[id]
                    /\ id \notin DOMAIN entries =>
                          ~v.ok /\ v.err = EntryNotFound(id))
    /\ [][ \A t \in Tasks :
             (pc[t] = "read" /\ pc'[t] = "read_ret") =>
                 store' = store /\ url' = url ]_vars

(* A task got the entry with id 3, which two rows of feed B carry, while
   another task holds a read guard too. *)
C8_Witness ==
    \E t, u \in Tasks :
        /\ Returned(t, "get_entry")
        /\ ret[1].id = 3
        /\ ret[1].val.ok
        /\ ret[1].val.val.id = 3
        /\ u # t /\ pc[u] = "read_ret"

(* C9: search without text, sem_id and topics returns every stored entry
   exactly once and nothing else, whatever text_langs is. *)
C9_SearchWithoutFilters ==
    \A t \in Tasks :
        (/\ Returned(t, "search")
         /\ ret[1].q.text = None
         /\ ret[1].q.sem_id = None
         /\ ret[1].q.topics = <<>>) =>
            LET v == ret[1].val
            IN  /\ v.ok
                /\ Range(v.val) = { entries[k] : k \in DOMAIN entries }
                /\ Len(v.val) = Cardinality(DOMAIN entries)
                /\ \A k \in DOMAIN entries :
                      Cardinality({ i \in 1..Len(v.val) :
                                      v.val[i] = entries[k] }) = 1

(* A search without filters, with text_langs given, has returned the three
   entries of a store in which one entry has no topic and one no sem_id. *)
C9_Witness ==
    \E t \in Tasks :
        /\ Returned(t, "search")
        /\ ret[1].q.text = None
        /\ ret[1].q.sem_id = None
        /\ ret[1].q.topics = <<>>
        /\ ret[1].q.text_langs = <<"eng">>
        /\ Len(ret[1].val.val) = 3
        /\ \E k \in DOMAIN entries : entries[k].topic = None
        /\ \E k \in DOMAIN entries : entries[k].sem_id = None

(* C10: search with sem_id = S and neither text nor topics returns exactly
   the stored entries whose sem_id is Some(S), each once; an entry without
   sem_id is never among them. *)
C10_SearchBySemId ==
    \A t \in Tasks :
        (/\ Returned(t, "search")
         /\ ret[1].q.text = None
         /\ ret[1].q.sem_id # None
         /\ ret[1].q.topics = <<>>) =>
            LET v == ret[1].val
                S == ret[1].q.sem_id[1]
                hits == { k \in DOMAIN entries : entries[k].sem_id = Some(S) }
            IN  /\ v.ok
                /\ Range(v.val) = { entries[k] : k \in hits }
                /\ Len(v.val) = Cardinality(hits)
                /\ \A i \in 1..Len(v.val) : v.val[i].sem_id # None

(* A search for a sem_id that no entry has returned nothing, from a store
   that holds an entry without sem_id. *)
C10_Witness ==
    \E t \in Tasks :
        /\ Returned(t, "search")
        /\ ret[1].q.text = None
        /\ ret[1].q.topics = <<>>
        /\ ret[1].q.sem_id = Some(5)
        /\ ret[1].val.val = <<>>
        /\ \E k \in DOMAIN entries : entries[k].sem_id = None
        /\ \E k \in DOMAIN entries : entries[k].sem_id = Some(9)

(* C11: search with a non-empty topics and neither text nor sem_id returns
   exactly the stored entries whose topic is present and among topics, each
   once, and so never an entry without topic; with an empty topics the
   topic filter excludes nothing: the result is what the other two filters
   let pass. *)
C11_SearchByTopics ==
    \A t \in Tasks :
        Returned(t, "search") =>
            LET q == ret[1].q
                v == ret[1].val
                hits == { k \in DOMAIN entries :
                            /\ entries[k].topic # None
                            /\ entries[k].topic[1] \in Range(q.topics) }
                others == { k \in DOMAIN entries :
                              /\ sem_filter(entries[k], q.sem_id)
                              /\ text_filter(entries[k], q.text,
                                             SearchLangs(q.text_langs)) }
            IN  /\ (q.topics # <<>> /\ q.text = None /\ q.sem_id = None) =>
                      /\ v.ok
                      /\ Range(v.val) = { entries[k] : k \in hits }
                      /\ Len(v.val) = Cardinality(hits)
                      /\ \A i \in 1..Len(v.val) : v.val[i].topic # None
                /\ q.topics = <<>> =>
                      /\ v.ok
                      /\ Range(v.val) = { entries[k] : k \in others }
                      /\ Len(v.val) = Cardinality(others)

(* A search for one topic has returned one entry of a store that also holds
   an entry of the other topic and an entry without topic. *)
C11_Witness ==
    \E t \in Tasks :
        /\ Returned(t, "search")
        /\ ret[1].q.text = None
        /\ ret[1].q.sem_id = None
        /\ ret[1].q.topics = << <<"n", "a", "t">> >>
        /\ Len(ret[1].val.val) = 1
        /\ ret[1].val.val[1].topic = Some(<<"n", "a", "t">>)
        /\ \E k \in DOMAIN entries : entries[k].topic = None
        /\ \E k \in DOMAIN entries : entries[k].topic = Some(<<"s", "o", "c">>)

(* Lists that name every supported language: in the order of the source,
   and in the opposite order. *)
AllLanguageLists ==
    { Languages, [ i \in 1..Len(Languages) |-> Languages[Len(Languages) + 1 - i] ] }

(* C12: search with a text and an empty text_langs returns the same set of
   entries as search with the same arguments and text_langs naming every
   supported language, and then an entry is returned when one of its
   language fields, whichever, contains the text; without text the result
   is the same set whatever text_langs is. *)
C12_EmptyLangsMeansAllLanguages ==
    \A t \in Tasks :
        Returned(t, "search") =>
            LET q == ret[1].q
                v == ret[1].val
                any == { k \in DOMAIN entries :
                           \E i \in 1..Len(Languages) :
                               /\ entries[k][Languages[i]] # None
                               /\ Contains(entries[k][Languages[i]][1],
                                           q.text[1]) }
            IN  /\ (q.text # None /\ q.text_langs = <<>>) =>
                      /\ \A L \in AllLanguageLists,
                            o \in Orders(DOMAIN entries) :
                             Range(v.val) =
                                 Range(search(q.text, L, q.sem_id, q.topics,
                                              o).val)
                      /\ (q.sem_id = None /\ q.topics = <<>>) =>
                             Range(v.val) = { entries[k] : k \in any }
                /\ q.text = None =>
                      \A L \in QueryLangs, o \in Orders(DOMAIN entries) :
                          Range(v.val) =
                              Range(search(None, L, q.sem_id, q.topics, o).val)

(* A search for a text with an empty text_langs has returned two entries,
   one of which has the text in its eng field only: the search in lat alone
   returns fewer. *)
C12_Witness ==
    \E t \in Tasks :
        /\ Returned(t, "search")
        /\ ret[1].q.text = Some(<<"a">>)
        /\ ret[1].q.text_langs = <<>>
        /\ ret[1].q.sem_id = None
        /\ ret[1].q.topics = <<>>
        /\ Len(ret[1].val.val) = 2
        /\ \E i \in 1..2 : /\ ret[1].val.val[i].lat = None
                           /\ ret[1].val.val[i].eng = Some(<<"a">>)
        /\ \E o \in Orders(DOMAIN entries) :
              Len(search(Some(<<"a">>), <<"lat">>, None, <<>>, o).val) = 1

---------------------------------------------------------------------------
(* Properties of the parser *)

(* Process p is in an update whose fetch returned the text of a feed;
   upd[p] is then what fetch_dict made of it. *)
Fetched(p) == fetched[p] # None /\ fetched[p][1].ok

FeedOf(p) == fetched[p][1].val

(* The rows 4+ of a feed. *)
EntryRows(feed) == 4..Len(feed)

(* The row has not the columns of the feed (those of its first row), or has
   not all the columns of RawEntry. *)
WrongColumnCount(feed, i) ==
    Len(feed[i]) # Len(feed[1]) \/ Len(feed[i]) < Len(RawEntryFields)

(* The cell is a decimal number, with or without sign, that fits in 32
   bits. *)
NumericCell(cell) == ParseU32(cell).ok

(* A malformed row: wrong column count or a non-numeric id. *)
MalformedRow(feed, i) ==
    WrongColumnCount(feed, i) \/ ~NumericCell(feed[i][FieldIndex("id")])

(* A well-formed row: the columns are there, the id is a number and the
   sem_id is empty or a number. *)
WellFormedRow(feed, i) ==
    /\ ~MalformedRow(feed, i)
    /\ feed[i][FieldIndex("sem_id")] = <<>>
          \/ NumericCell(feed[i][FieldIndex("sem_id")])

IdOfRow(feed, i) == ParseU32(feed[i][FieldIndex("id")]).val

(* The feed has a counters row with as many cells as the title row, and its
   sixteen counter cells are numbers once the dots are removed. *)
ValidCountersRow(feed) ==
    /\ Len(feed) >= 2
    /\ Len(feed[2]) = Len(feed[1])
    /\ \A c \in 1..Len(CounterColumns) :
          /\ CounterColumns[c][2] < Len(feed[2])
          /\ NumericCell(StripDots(feed[2][CounterColumns[c][2] + 1]))

(* C13: when the counters row is valid, parsing succeeds whatever the entry
   rows are; the ids of the mapping are exactly the ids of the well-formed
   rows, so that a malformed row adds nothing and the well-formed rows
   after a malformed row are in the mapping, each id with the cells of a
   well-formed row that carries it. *)
C13_MalformedRowsAreDropped ==
    \A p \in Procs :
        (Fetched(p) /\ ValidCountersRow(FeedOf(p))) =>
            LET feed == FeedOf(p)
                good == { i \in EntryRows(feed) : WellFormedRow(feed, i) }
            IN  /\ upd[p][1].ok
                /\ DOMAIN upd[p][1].val.entries =
                       { IdOfRow(feed, i) : i \in good }
                /\ \A i \in EntryRows(feed), j \in good :
                       (MalformedRow(feed, i) /\ i < j) =>
                           IdOfRow(feed, j) \in DOMAIN upd[p][1].val.entries
                /\ \A k \in DOMAIN upd[p][1].val.entries :
                       \E i \in good :
                           /\ IdOfRow(feed, i) = k
                           /\ upd[p][1].val.entries[k] =
                                 EntryTryFrom(
                                     DeserializeRawEntry(feed[i]).val).val

(* from_url has parsed a feed whose first entry row is too short and is
   followed by two well-formed rows: the store holds these two. *)
C13_Witness ==
    /\ pc[Main] = "update_ok"
    /\ Fetched(Main)
    /\ Len(FeedOf(Main)) = 6
    /\ FeedOf(Main)[4] = RowShort
    /\ WellFormedRow(FeedOf(Main), 5)
    /\ WellFormedRow(FeedOf(Main), 6)
    /\ DOMAIN entries = { 1, 2 }

(* The number a counter cell stands for: its digits, without the dots and
   the sign. *)
NumberOf(cell) == DecVal(SelectSeq(cell, LAMBDA c : IsDigit(c)), 0)

(* The counters row of the feed has a cell in each of the sixteen columns a
   counter is read from. *)
HasCounterCells(feed) ==
    /\ Len(feed) >= 2
    /\ \A c \in 1..Len(CounterColumns) : CounterColumns[c][2] < Len(feed[2])

CounterCell(feed, name) == feed[2][CounterColumns[CounterIndex(name)][2] + 1]

(* The store holds what the last successful fetch_dict returned. *)
StoreIsLastGood ==
    /\ last_good # None
    /\ entries = last_good[1].entries
    /\ counters = last_good[1].counters

(* C14: when the sixteen counter cells are numbers once their dots are
   removed, parsing gives each counter the number of its cell; when one of
   them is not, fetch_dict fails with the error of the integer parser
   (MalformedNumber), from_url fails with it, and a refresh leaves the
   store with the dataset it had. *)
C14_CountersWithoutDots ==
    \A p \in Procs :
        (Fetched(p) /\ HasCounterCells(FeedOf(p))) =>
            LET feed == FeedOf(p)
            IN  IF \A n \in CounterNames :
                       NumericCell(StripDots(CounterCell(feed, n)))
                THEN /\ upd[p][1].ok
                     /\ \A n \in CounterNames :
                            upd[p][1].val.counters[n] =
                                NumberOf(CounterCell(feed, n))
                ELSE /\ upd[p][1] = Err(ParseIntError)
                     /\ pc[p] = "update_err"
                     /\ p \in Tasks => StoreIsLastGood

(* The counter cells that the counters row has are numbers once the dots
   are removed. *)
PresentCounterCellsNumeric(feed) ==
    \A c \in 1..Len(CounterColumns) :
        CounterColumns[c][2] < Len(feed[2]) =>
            NumericCell(StripDots(feed[2][CounterColumns[c][2] + 1]))

(* C15: when the feed has no second row, or its counters row lacks one of
   the columns a counter is read from (the counter cells it has being
   numbers), fetch_dict fails with MissingDictHeaders (MissingHeaders) and
   gives no entries, from_url fails, and a refresh leaves the store with
   the dataset it had. *)
C15_MissingHeaders ==
    \A p \in Procs :
        (/\ Fetched(p)
         /\ ~HasCounterCells(FeedOf(p))
         /\ Len(FeedOf(p)) >= 2 => PresentCounterCellsNumeric(FeedOf(p))) =>
            /\ upd[p][1] = Err(MissingDictHeaders)
            /\ pc[p] = "update_err"
            /\ p \in Tasks => StoreIsLastGood

(* The entry a well-formed row stands for. *)
EntryOfRow(row) == EntryTryFrom(DeserializeRawEntry(row).val).val

(* C16: with a valid counters row, a feed in which several well-formed rows
   have the same id parses without error; the mapping has one entry for
   every id a well-formed row carries, namely the entry of the last row
   with that id in the order of the feed, and so as many entries as there
   are distinct ids. *)
C16_LastRowOfAnIdWins ==
    \A p \in Procs :
        (Fetched(p) /\ ValidCountersRow(FeedOf(p))) =>
            LET feed == FeedOf(p)
                good == { i \in EntryRows(feed) : WellFormedRow(feed, i) }
                ids == { IdOfRow(feed, i) : i \in good }
                last(k) == CHOOSE i \in good :
                               /\ IdOfRow(feed, i) = k
                               /\ \A j \in good :
                                      IdOfRow(feed, j) = k => j <= i
            IN  /\ upd[p][1].ok
                /\ Cardinality(DOMAIN upd[p][1].val.entries) =
                       Cardinality(ids)
                /\ \A k \in ids :
                       /\ k \in DOMAIN upd[p][1].val.entries
                       /\ upd[p][1].val.entries[k] = EntryOfRow(feed[last(k)])

(* from_url has parsed a feed with two rows of id 1 that differ, and the
   store holds the second of them. *)
C16_Witness ==
    /\ pc[Main] = "update_ok"
    /\ Fetched(Main)
    /\ Len(FeedOf(Main)) = 5
    /\ FeedOf(Main)[4] = RowOne
    /\ FeedOf(Main)[5] = RowOneAgain
    /\ DOMAIN entries = { 1 }
    /\ entries[1].sem_id = Some(9)
    /\ EntryOfRow(RowOne).sem_id = Some(7)

(* The rows whose entry the mapping holds: the last well-formed row of each
   id. *)
StoredRows(feed) ==
    { i \in EntryRows(feed) :
        /\ WellFormedRow(feed, i)
        /\ \A j \in EntryRows(feed) :
               (WellFormedRow(feed, j) /\ IdOfRow(feed, j) = IdOfRow(feed, i))
                   => j <= i }

(* C17: a well-formed row whose topic cell is no known topic is kept: its
   entry has no topic, the id and sem_id are the numbers of their cells and
   every language text is the cell of its column (absent when empty); and
   an entry without topic is among the entries a search with empty topics
   and no other filter returns, and never among those a search with
   non-empty topics returns. *)
C17_UnknownTopicIsAbsent ==
    /\ \A p \in Procs :
           (Fetched(p) /\ ValidCountersRow(FeedOf(p))) =>
               \A i \in StoredRows(FeedOf(p)) :
                   LET row == FeedOf(p)[i]
                       cell(f) == row[FieldIndex(f)]
                   IN  cell("topic") \notin KnownTopics =>
                           /\ upd[p][1].ok
                           /\ IdOfRow(FeedOf(p), i)
                                 \in DOMAIN upd[p][1].val.entries
                           /\ LET e == upd[p][1].val.entries[
                                           IdOfRow(FeedOf(p), i)]
                              IN  /\ e.topic = None
                                  /\ e.id = NumberOf(cell("id"))
                                  /\ e.sem_id =
                                        IF cell("sem_id") = <<>> THEN None
                                        ELSE Some(NumberOf(cell("sem_id")))
                                  /\ \A l \in Range(Languages) :
                                        e[l] = IF cell(l) = <<>> THEN None
                                               ELSE Some(cell(l))
    /\ \A t \in Tasks :
           (Returned(t, "search") /\ ret[1].q.text = None
               /\ ret[1].q.sem_id = None) =>
               \A k \in DOMAIN entries :
                   entries[k].topic = None =>
                       (ret[1].q.topics = <<>>
                           <=> entries[k] \in Range(ret[1].val.val))

(* The store holds the entry of RowTwo, whose topic cell "z" is no topic,
   and a search for both topics has returned the other entry only. *)
C17_Witness ==
    \E t \in Tasks :
        /\ Returned(t, "search")
        /\ Len(ret[1].q.topics) = 2
        /\ 2 \in DOMAIN entries
        /\ entries[2] = EntryOfRow(RowTwo)
        /\ entries[2].topic = None
        /\ entries[2].eng = Some(<<"b">>)
        /\ Len(ret[1].val.val) = 1
        /\ ret[1].val.val[1].id = 1

(* C18: the entry of a row has essential_flag true exactly when the cell of
   the essential marker is "e", and basic_flag true exactly when the cell
   of the basic marker is "b": an empty cell and any other text give
   false, and neither flag depends on the other marker. *)
C18_FlagsFromMarkers ==
    \A p \in Procs :
        (Fetched(p) /\ ValidCountersRow(FeedOf(p))) =>
            \A i \in StoredRows(FeedOf(p)) :
                LET row == FeedOf(p)[i]
                    e == upd[p][1].val.entries[IdOfRow(FeedOf(p), i)]
                IN  /\ e.essential_flag
                          <=> row[FieldIndex("essential_flag")] = <<"e">>
                    /\ e.basic_flag
                          <=> row[FieldIndex("basic_flag")] = <<"b">>
                    /\ e.essential_flag \in BOOLEAN
                    /\ e.basic_flag \in BOOLEAN

(* from_url has parsed RowOne, essential and with an empty basic marker,
   and RowTwo, whose markers "b" and "e" are in each other's column: its
   flags are both false. *)
C18_Witness ==
    /\ pc[Main] = "update_ok"
    /\ Fetched(Main)
    /\ Len(FeedOf(Main)) = 5
    /\ FeedOf(Main)[4] = RowOne
    /\ FeedOf(Main)[5] = RowTwo
    /\ RowTwo[FieldIndex("essential_flag")] = <<"b">>
    /\ RowTwo[FieldIndex("basic_flag")] = <<"e">>
    /\ entries[1].essential_flag /\ ~entries[1].basic_flag
    /\ ~entries[2].essential_flag /\ ~entries[2].basic_flag

---------------------------------------------------------------------------
(* Properties of concurrent and abandoned refreshes *)

(* The process is in update: between the start of its fetch and the return
   of update. *)
Refreshing(p) == pc[p] \in WriteHeld

(* C19: at most one process is between the start of its fetch and the end
   of its swap; the dataset a refresh assigns is the one fetched last, so
   that a dataset fetched earlier never replaces one fetched later; the
   store changes only by a step of the one update that runs; and when no
   refresh runs, the entries and counters are those of the last refresh
   that succeeded. *)
C19_RefreshesDoNotOverlap ==
    /\ [](\A p, q \in Procs : (Refreshing(p) /\ Refreshing(q)) => p = q)
    /\ [](\A p \in Procs :
            pc[p] \in { "set_entries", "set_counters", "set_last_update",
                        "update_ok" } =>
                /\ upd[p][1].ok
                /\ last_good = Some(upd[p][1].val))
    /\ [][ (Ready /\ store' # store) =>
             \E p \in Tasks :
                 /\ pc[p] \in { "set_entries", "set_counters",
                                "set_last_update" }
                 /\ pc'[p] # pc[p]
                 /\ \A q \in Procs \ {p} : ~Refreshing(q) /\ pc'[q] = pc[q]
         ]_vars
    /\ []((Ready /\ \A p \in Procs : ~Refreshing(p)) => StoreIsLastGood)

(* Two refreshes were asked for while a third ran: the first has replaced
   the dataset and still holds the guard, the other two wait their turn. *)
C19_Witness ==
    \E w, x, y \in Tasks :
        /\ pc[w] = "update_ok"
        /\ waitq = << x, y >>
        /\ pc[x] = "wait_write"
        /\ pc[y] = "wait_write"
        /\ entries = upd[w][1].val.entries
        /\ counters = upd[w][1].val.counters

(* C20: a refresh is abandoned only while its fetch is in flight, when none
   of the three fields has been assigned: the abandonment leaves the
   entries, the counters and last_update as they are, which is as the last
   successful fetch left them; it leaves nothing of the update behind and
   drops the write guard, so that the first waiter is granted the lock,
   and nobody waits for a lock that nobody holds. *)
C20_AbandonedRefreshChangesNothing ==
    /\ [][ \A t \in Tasks :
             (pc'[t] = "abandoned" /\ pc[t] # "abandoned") =>
                 /\ pc[t] = "fetching"
                 /\ store' = store
                 /\ StoreIsLastGood
                 /\ last_good' = last_good
                 /\ upd'[t] = None
                 /\ \A q \in Procs : ~Swapping(q)
                 /\ IF waitq = <<>>
                    THEN \A q \in Procs : ~Refreshing(q)'
                    ELSE pc'[Head(waitq)] \in { "read", "fetching" }
         ]_vars
    /\ []((Writers(pc) = {} /\ Readers(pc) = {}) => waitq = <<>>)
    /\ [](\A t \in Tasks :
            (pc[t] = "abandoned" /\ \A q \in Procs : ~Refreshing(q)) =>
                StoreIsLastGood)

(* A task has abandoned its refresh of a filled store; a reader that waited
   behind it holds the read guard and has got its entry, and a refresh that
   came after the reader waits for it. *)
C20_Witness ==
    \E t, r, x \in Tasks :
        /\ pc[t] = "abandoned"
        /\ Returned(r, "get_entry")
        /\ ret[1].val.ok
        /\ ret[1].val.val = entries[ret[1].id]
        /\ pc[x] = "wait_write"
        /\ waitq = << x >>
        /\ StoreIsLastGood

====
